---- MODULE Spec2Model ----
(***************************************************************************)
(* Payment and billing reconciliation of the enrollment backend:           *)
(* billing generation, checkout creation, payment completion through the   *)
(* webhook / redirect / mock endpoints, cancellation and webhook signature *)
(* verification, over the ledger tables of the store.                      *)
(*                                                                         *)
(* Every request handler is a sequence of store calls.  A handler's first  *)
(* action is the arrival of the request up to and including its first      *)
(* store call and the local computation that follows it; every further     *)
(* action is the next store call with the local computation after it.      *)
(* Amounts are whole currency units.                                       *)
(***************************************************************************)
EXTENDS Integers, Sequences, FiniteSets, TLC

VARIABLES
    cfg,                   \* process.env: the gateway configuration
    scheme,                \* tuition_schemes row of the enrollment
    enrollment,            \* enrollments row (status)
    accounts,              \* accounts rows of the student: total_balance, by account_id
    enrollment_fees,       \* enrollment_fees rows of the enrollment
    payment_installments,  \* payment_installments rows of the enrollment
    payments,              \* payments rows, by payment_id
    payment_transactions,  \* payment_transactions status, by payment_id ("none": no row)
    account_transactions,  \* account_transactions rows, in insertion order
    reqs                   \* the requests being handled: one record per slot

store == <<enrollment, accounts, enrollment_fees, payment_installments,
           payments, payment_transactions, account_transactions>>
ledger == <<accounts, enrollment_fees, payment_installments, account_transactions>>
vars == <<cfg, scheme, store, reqs>>

----------------------------------------------------------------------------
(* Bounds of the model *)

MaxPayments == 2       \* payments rows that checkouts may create
MaxTx == 3             \* account_transactions rows that completions may append
MaxMonths == 3         \* largest scheme.months value

(* Program constants *)

DefaultMonths == 4     \* parseInt(scheme.months) || 4
MonthsMissing == -1    \* scheme.months is NULL

----------------------------------------------------------------------------
(* Helpers *)

Max(a, b) == IF a >= b THEN a ELSE b
Min(a, b) == IF a <= b THEN a ELSE b

RECURSIVE SumAmounts(_)
SumAmounts(s) == IF s = <<>> THEN 0 ELSE Head(s).amount + SumAmounts(Tail(s))

NoPayment == [account_id |-> 0, enrollment_id |-> 0, amount |-> 0,
              status |-> "none", payment_type |-> "none"]

IdleReq == [kind |-> "idle", pc |-> "idle", pid |-> 0, payment |-> NoPayment,
            balance |-> 0, total |-> 0, fee_id |-> 0,
            code |-> 0, tag |-> "none", sent |-> 0, tampered |-> FALSE,
            header |-> "none"]

Free(r) == reqs[r].pc \in {"idle", "done"}

\* The record of slot r once its handler has sent its response and ended.
Response(r, kind, code, tag) ==
    [IdleReq EXCEPT !.kind = kind, !.pc = "done",
                    !.pid = IF Free(r) THEN 0 ELSE reqs[r].pid,
                    !.code = code, !.tag = tag,
                    !.sent = IF Free(r) \/ reqs[r].sent = 0 THEN 1
                             ELSE reqs[r].sent + 2]

\* The handler of slot r sends its response and ends.
Respond(r, kind, code, tag) ==
    reqs' = [reqs EXCEPT ![r] = Response(r, kind, code, tag)]

----------------------------------------------------------------------------
(* Dates: <<month, day>>, month counted from January of the current year  *)

DaysIn(m) ==
    LET k == m % 12
    IN  IF k = 1 THEN 28
        ELSE IF k \in {3, 5, 8, 10} THEN 30 ELSE 31

\* Date.setMonth(getMonth() + i): the day of month is kept and a day past the
\* end of the target month rolls over into the month after it.
SetMonthPlus(date, i) ==
    LET m == date[1] + i
        d == date[2]
    IN  IF d <= DaysIn(m) THEN <<m, d>> ELSE <<m + 1, d - DaysIn(m)>>

\* toISOString().split("T")[0]: a text that sorts as the date does.
IsoDate(date) == date[1] * 100 + date[2]

----------------------------------------------------------------------------
(* Billing Generator *)

\* parseInt(scheme.months) || 4
ParseMonths(m) == IF m = MonthsMissing \/ m = 0 THEN DefaultMonths ELSE m

\* The total that ignores the discount.
TotalAmountNoDiscount(s) == s.amount

\* Math.round((baseAmount - discount) * 100) / 100 on whole amounts
TotalAmount(s) == s.amount - s.discount

\* The existence check without its enrollment_fees half.
BillingExistsInstallmentsOnly ==
    Len(payment_installments) > 0

\* existingFees?.length > 0 || existingInstallments?.length > 0
BillingExists ==
    Len(enrollment_fees) > 0 \/ Len(payment_installments) > 0

NextFeeId ==
    IF enrollment_fees = <<>> THEN 1
    ELSE 1 + CHOOSE n \in {enrollment_fees[i].fee_id : i \in DOMAIN enrollment_fees} :
                 \A i \in DOMAIN enrollment_fees : enrollment_fees[i].fee_id <= n

\* The loop with every due date one month from now.
InstallmentRowsSameMonth(s, now) ==
    [i \in 1..ParseMonths(s.months) |->
        [installment_number |-> i,
         amount |-> s.monthly_payment,
         due_date |-> IsoDate(SetMonthPlus(now, 1)),
         status |-> "pending",
         payment_id |-> 0]]

\* The rows the loop of generateBilling builds at time now.
InstallmentRows(s, now) ==
    [i \in 1..ParseMonths(s.months) |->
        [installment_number |-> i,
         amount |-> s.monthly_payment,
         due_date |-> IsoDate(SetMonthPlus(now, i)),
         status |-> "pending",
         payment_id |-> 0]]

\* rpc initialize_account_balance: creates or locates the account of the
\* student and sets its total_balance, as one operation of the store.
InitializeAccountBalance(total) ==
    accounts' = IF accounts = <<>> THEN <<total>>
                ELSE [accounts EXCEPT ![1] = total]

\* generateBilling up to the existence check and the amount check.
GB_Start(r) ==
    /\ Free(r)
    /\ IF BillingExists
         THEN Respond(r, "generate_billing", 400, "already_generated")
         ELSE IF TotalAmount(scheme) <= 0
         THEN Respond(r, "generate_billing", 500, "invalid_amount")
         ELSE reqs' = [reqs EXCEPT ![r] =
                  [IdleReq EXCEPT !.kind = "generate_billing", !.pc = "gb_account",
                                  !.total = TotalAmount(scheme)]]
    /\ UNCHANGED <<cfg, scheme, store>>

\* The account is initialized; an invalid scheme type is found only after it.
GB_Account(r) ==
    /\ reqs[r].pc = "gb_account"
    /\ InitializeAccountBalance(reqs[r].total)
    /\ IF scheme.scheme_type \in {"full_payment", "installment"}
         THEN reqs' = [reqs EXCEPT ![r].pc = "gb_fee"]
         ELSE Respond(r, "generate_billing", 500, "invalid_scheme_type")
    /\ UNCHANGED <<cfg, scheme, enrollment, enrollment_fees, payment_installments,
                   payments, payment_transactions, account_transactions>>

GB_AccountError(r) ==
    /\ reqs[r].pc = "gb_account"
    /\ Respond(r, "generate_billing", 500, "account_error")
    /\ UNCHANGED <<cfg, scheme, store>>

\* The Full Payment fee or the Downpayment fee is inserted.
GB_Fee(r) ==
    /\ reqs[r].pc = "gb_fee"
    /\ LET full == scheme.scheme_type = "full_payment"
           row == [fee_id |-> NextFeeId,
                   fee_type |-> IF full THEN "Tuition" ELSE "Downpayment",
                   amount |-> IF full THEN reqs[r].total ELSE scheme.downpayment,
                   is_paid |-> FALSE]
       IN  /\ enrollment_fees' = Append(enrollment_fees, row)
           /\ IF full
                THEN Respond(r, "generate_billing", 200, "full_payment")
                ELSE reqs' = [reqs EXCEPT ![r].pc = "gb_installments",
                                          ![r].fee_id = row.fee_id]
    /\ UNCHANGED <<cfg, scheme, enrollment, accounts, payment_installments,
                   payments, payment_transactions, account_transactions>>

GB_FeeError(r) ==
    /\ reqs[r].pc = "gb_fee"
    /\ Respond(r, "generate_billing", 500, "fee_error")
    /\ UNCHANGED <<cfg, scheme, store>>

\* The installment rows are built from the current date and inserted.
GB_Installments(r, now) ==
    /\ reqs[r].pc = "gb_installments"
    /\ payment_installments' = payment_installments \o InstallmentRows(scheme, now)
    /\ Respond(r, "generate_billing", 200, "installment")
    /\ UNCHANGED <<cfg, scheme, enrollment, accounts, enrollment_fees,
                   payments, payment_transactions, account_transactions>>

GB_InstallmentsError(r) ==
    /\ reqs[r].pc = "gb_installments"
    /\ reqs' = [reqs EXCEPT ![r].pc = "gb_rollback"]
    /\ UNCHANGED <<cfg, scheme, store>>

\* Rollback: the Downpayment fee of this call is deleted.
GB_Rollback(r) ==
    /\ reqs[r].pc = "gb_rollback"
    /\ enrollment_fees' = SelectSeq(enrollment_fees,
                                    LAMBDA f : f.fee_id # reqs[r].fee_id)
    /\ Respond(r, "generate_billing", 500, "installments_error")
    /\ UNCHANGED <<cfg, scheme, enrollment, accounts, payment_installments,
                   payments, payment_transactions, account_transactions>>

----------------------------------------------------------------------------
(* Checkout Session Manager *)

\* PAYMONGO_ENABLED && PAYMONGO_SECRET_KEY of the enrollment-billing router
BillingGatewayOn == cfg.enabled /\ cfg.secret_key

\* PAYMONGO_ENABLED of the payments router
PaymentsGatewayOn == cfg.secret_key /\ ~cfg.public_offline

UnpaidFees == SelectSeq(enrollment_fees, LAMBDA f : ~f.is_paid)

DownpaymentFees == SelectSeq(enrollment_fees, LAMBDA f : f.fee_type = "Downpayment")

PendingInstallments == {i \in DOMAIN payment_installments :
                           payment_installments[i].status = "pending"}

\* .eq("status", "pending").order("installment_number").limit(1): 0 when none
FirstPendingByNumber ==
    IF PendingInstallments = {} THEN 0
    ELSE CHOOSE i \in PendingInstallments : \A j \in PendingInstallments :
            payment_installments[i].installment_number
                < payment_installments[j].installment_number
            \/ (payment_installments[i].installment_number
                   = payment_installments[j].installment_number /\ i <= j)

\* .eq("status", "pending").order("due_date").limit(1): 0 when none
FirstPendingByDueDate ==
    IF PendingInstallments = {} THEN 0
    ELSE CHOOSE i \in PendingInstallments : \A j \in PendingInstallments :
            payment_installments[i].due_date < payment_installments[j].due_date
            \/ (payment_installments[i].due_date = payment_installments[j].due_date
                   /\ i <= j)

\* The plan that never asks for the downpayment first.
CheckoutPlanInstallmentFirst ==
    IF scheme.scheme_type = "full_payment"
    THEN IF UnpaidFees = <<>> THEN <<"no_unpaid_fees", "none", 0>>
         ELSE <<"none", "full_payment", SumAmounts(UnpaidFees)>>
    ELSE IF scheme.scheme_type = "installment"
    THEN IF Len(DownpaymentFees) # 1 THEN <<"billing_not_generated", "none", 0>>
         ELSE IF FirstPendingByNumber = 0 THEN <<"no_pending_installments", "none", 0>>
         ELSE <<"none", "installment",
                payment_installments[FirstPendingByNumber].amount>>
    ELSE <<"invalid_scheme_type", "none", 0>>

\* What create-checkout of the billing router decides to charge:
\* <<error, payment_type, amount>>, error "none" when a payment is to be made.
CheckoutPlan ==
    IF scheme.scheme_type = "full_payment"
    THEN IF UnpaidFees = <<>> THEN <<"no_unpaid_fees", "none", 0>>
         ELSE <<"none", "full_payment", SumAmounts(UnpaidFees)>>
    ELSE IF scheme.scheme_type = "installment"
    THEN IF Len(DownpaymentFees) # 1 THEN <<"billing_not_generated", "none", 0>>
         ELSE IF ~DownpaymentFees[1].is_paid
         THEN <<"none", "downpayment", DownpaymentFees[1].amount>>
         ELSE IF FirstPendingByNumber = 0 THEN <<"no_pending_installments", "none", 0>>
         ELSE <<"none", "installment",
                payment_installments[FirstPendingByNumber].amount>>
    ELSE <<"invalid_scheme_type", "none", 0>>

\* create-checkout of the billing router, up to the amount validation.
CC_Start(r) ==
    /\ Free(r)
    /\ IF Len(accounts) # 1
         THEN Respond(r, "create_checkout", 400, "account_not_found")
         ELSE LET plan == CheckoutPlan
              IN  IF plan[1] # "none"
                  THEN Respond(r, "create_checkout", 400, plan[1])
                  ELSE IF plan[3] <= 0
                  THEN Respond(r, "create_checkout", 400, "invalid_amount")
                  ELSE reqs' = [reqs EXCEPT ![r] =
                          [IdleReq EXCEPT !.kind = "create_checkout",
                                          !.pc = "cc_insert",
                                          !.payment = [account_id |-> 1,
                                                       enrollment_id |-> 1,
                                                       amount |-> plan[3],
                                                       status |-> "Pending",
                                                       payment_type |-> plan[2]]]]
    /\ UNCHANGED <<cfg, scheme, store>>

\* The Pending payments row is inserted; the gateway is called next when it is
\* configured, and the mock payment_transactions row is inserted otherwise.
InsertPayment(r, gateway) ==
    /\ reqs[r].pc = "cc_insert"
    /\ Len(payments) < MaxPayments
    /\ payments' = Append(payments, reqs[r].payment)
    /\ payment_transactions' = Append(payment_transactions, "none")
    /\ reqs' = [reqs EXCEPT ![r].pid = Len(payments) + 1,
                            ![r].pc = IF gateway THEN "cc_gateway" ELSE "cc_ptx"]
    /\ UNCHANGED <<cfg, scheme, enrollment, accounts, enrollment_fees,
                   payment_installments, account_transactions>>

CC_Insert(r) ==
    /\ reqs[r].kind = "create_checkout"
    /\ InsertPayment(r, BillingGatewayOn)

\* POST /checkout_sessions answers with a checkout session.
GatewayAnswers(r, kind) ==
    /\ reqs[r].pc = "cc_gateway"
    /\ reqs[r].kind = kind
    /\ reqs' = [reqs EXCEPT ![r].pc = "cc_ptx"]
    /\ UNCHANGED <<cfg, scheme, store>>

\* The failure that comes after the payment_transactions row was written.
GatewayFailsRowWritten(r, kind) ==
    /\ reqs[r].pc = "cc_gateway"
    /\ reqs[r].kind = kind
    /\ payment_transactions' = [payment_transactions EXCEPT ![reqs[r].pid] = "pending"]
    /\ Respond(r, kind, 500, "gateway_error")
    /\ UNCHANGED <<cfg, scheme, enrollment, accounts, enrollment_fees,
                   payment_installments, payments, account_transactions>>

\* POST /checkout_sessions fails: the handler answers 500 and stops.
GatewayFails(r, kind) ==
    /\ reqs[r].pc = "cc_gateway"
    /\ reqs[r].kind = kind
    /\ Respond(r, kind, 500, "gateway_error")
    /\ UNCHANGED <<cfg, scheme, store>>

\* The payment_transactions row of the checkout is inserted.
InsertTransaction(r, kind) ==
    /\ reqs[r].pc = "cc_ptx"
    /\ reqs[r].kind = kind
    /\ payment_transactions' = [payment_transactions EXCEPT ![reqs[r].pid] = "pending"]
    /\ Respond(r, kind, 200, reqs[r].payment.payment_type)
    /\ UNCHANGED <<cfg, scheme, enrollment, accounts, enrollment_fees,
                   payment_installments, payments, account_transactions>>

CC_Gateway(r) == GatewayAnswers(r, "create_checkout")
CC_GatewayError(r) == GatewayFails(r, "create_checkout")
CC_Ptx(r) == InsertTransaction(r, "create_checkout")

\* What create-checkout of the payments router decides to charge for a
\* payment_type and custom_amount (0: none given), with the balance it read.
TuitionPlan(payment_type, custom_amount, current_balance) ==
    IF payment_type = "enrollment"
    THEN <<"none", SumAmounts(UnpaidFees)>>
    ELSE IF payment_type = "balance"
    THEN IF current_balance <= 0 THEN <<"no_outstanding_balance", 0>>
         ELSE IF custom_amount > 0
         THEN <<"none", Min(custom_amount, current_balance)>>
         ELSE <<"none", current_balance>>
    ELSE IF payment_type = "monthly"
    THEN IF FirstPendingByDueDate = 0 THEN <<"no_pending_installments", 0>>
         ELSE <<"none", payment_installments[FirstPendingByDueDate].amount>>
    ELSE <<"none", 0>>

\* After the account is known: the amount is computed and validated.
TC_Plan(r, payment_type, custom_amount, account_id, current_balance) ==
    LET plan == TuitionPlan(payment_type, custom_amount, current_balance)
    IN  IF plan[1] # "none"
        THEN Respond(r, "tuition_checkout", 400, plan[1])
        ELSE IF plan[2] <= 0
        THEN Respond(r, "tuition_checkout", 400, "invalid_amount")
        ELSE reqs' = [reqs EXCEPT ![r] =
                [IdleReq EXCEPT !.kind = "tuition_checkout",
                                !.pc = "cc_insert",
                                !.payment = [account_id |-> account_id,
                                             enrollment_id |->
                                                 IF payment_type = "balance"
                                                 THEN 0 ELSE 1,
                                             amount |-> plan[2],
                                             status |-> "Pending",
                                             payment_type |-> payment_type]]]

\* create-checkout of the payments router: the account is read; when the
\* student has none the handler goes on to insert one.
TC_Start(r, payment_type, custom_amount) ==
    /\ Free(r)
    /\ IF Len(accounts) > 1
         THEN Respond(r, "tuition_checkout", 400, "account_error")
         ELSE IF accounts = <<>>
         THEN reqs' = [reqs EXCEPT ![r] =
                 [IdleReq EXCEPT !.kind = "tuition_checkout", !.pc = "tc_account",
                                 !.tag = payment_type, !.total = custom_amount]]
         ELSE TC_Plan(r, payment_type, custom_amount, 1, accounts[1])
    /\ UNCHANGED <<cfg, scheme, store>>

\* The account is inserted with balance 0.
TC_Account(r) ==
    /\ reqs[r].pc = "tc_account"
    /\ accounts' = Append(accounts, 0)
    /\ TC_Plan(r, reqs[r].tag, reqs[r].total, Len(accounts) + 1, 0)
    /\ UNCHANGED <<cfg, scheme, enrollment, enrollment_fees, payment_installments,
                   payments, payment_transactions, account_transactions>>

TC_Insert(r) ==
    /\ reqs[r].kind = "tuition_checkout"
    /\ InsertPayment(r, PaymentsGatewayOn)

TC_Gateway(r) == GatewayAnswers(r, "tuition_checkout")
TC_GatewayError(r) == GatewayFails(r, "tuition_checkout")
TC_Ptx(r) == InsertTransaction(r, "tuition_checkout")

----------------------------------------------------------------------------
(* Payment Completion Engine *)

PaymentExists(pid) == pid \in DOMAIN payments

\* UPDATE payment_transactions SET status = st WHERE payment_id = pid
SetTransactionStatus(pid, st) ==
    payment_transactions' =
        [i \in DOMAIN payment_transactions |->
            IF i = pid /\ payment_transactions[i] # "none"
            THEN st ELSE payment_transactions[i]]

\* UPDATE payments SET status = st WHERE payment_id = pid
SetPaymentStatus(pid, st) ==
    payments' = [i \in DOMAIN payments |->
                    IF i = pid THEN [payments[i] EXCEPT !.status = st]
                    ELSE payments[i]]

AllFeesPaid(fees) == [i \in DOMAIN fees |-> [fees[i] EXCEPT !.is_paid = TRUE]]

DownpaymentPaid(fees) ==
    [i \in DOMAIN fees |->
        IF fees[i].fee_type = "Downpayment" THEN [fees[i] EXCEPT !.is_paid = TRUE]
        ELSE fees[i]]

\* The installment row k is marked paid by payment pid (k = 0: no row).
InstallmentPaid(k, pid) ==
    [i \in DOMAIN payment_installments |->
        IF i = k THEN [payment_installments[i] EXCEPT !.status = "paid",
                                                      !.payment_id = pid]
        ELSE payment_installments[i]]

LogRow(pid, amount, before, after) ==
    [payment_id |-> pid, amount |-> amount,
     balance_before |-> before, balance_after |-> after]

\* rpc process_payment_transaction: the payment is set Completed, its
\* payment_transactions row paid, the effect of its payment_type applied and
\* one account_transactions row appended, as one operation of the store.
ProcessPaymentTransaction(pid, account_id, amount, payment_type) ==
    LET before == accounts[account_id]
        after == IF payment_type = "balance" THEN Max(0, before - amount)
                 ELSE IF payment_type = "enrollment" THEN before + amount
                 ELSE before
        fees == IF payment_type \in {"enrollment", "full_payment"}
                THEN AllFeesPaid(enrollment_fees)
                ELSE IF payment_type = "downpayment"
                THEN DownpaymentPaid(enrollment_fees)
                ELSE enrollment_fees
        insts == IF payment_type \in {"installment", "monthly"}
                 THEN InstallmentPaid(FirstPendingByNumber, pid)
                 ELSE payment_installments
    IN  /\ Len(account_transactions) < MaxTx
        /\ SetPaymentStatus(pid, "Completed")
        /\ SetTransactionStatus(pid, "paid")
        /\ enrollment_fees' = fees
        /\ payment_installments' = insts
        /\ enrollment' =
              IF /\ payment_type \in {"enrollment", "full_payment"}
                 /\ \A i \in DOMAIN insts : insts[i].status = "paid"
              THEN [enrollment EXCEPT !.status = "Enrolled"]
              ELSE enrollment
        /\ accounts' = [accounts EXCEPT ![account_id] = after]
        /\ account_transactions' =
              Append(account_transactions, LogRow(pid, amount, before, after))

\* The guard with the status spelled in lower case.
AlreadyCompletedLower(payment) == payment.status = "completed"

\* if (payment.status === "Completed") of processPaymentCompletion
AlreadyCompleted(payment) == payment.status = "Completed"

\* The response of a handler that ran processPaymentCompletion.
CompletionCode(kind) == IF kind = "success_redirect" THEN 302 ELSE 200

\* processPaymentCompletion: the transaction of the store is called with the
\* payment row the handler read.
PPC_Rpc(r) ==
    /\ reqs[r].pc = "ppc_rpc"
    /\ ProcessPaymentTransaction(reqs[r].pid, reqs[r].payment.account_id,
                                 reqs[r].payment.amount,
                                 reqs[r].payment.payment_type)
    /\ reqs' = [reqs EXCEPT ![r].pc = "ppc_post"]
    /\ UNCHANGED <<cfg, scheme>>

\* The transaction fails: processPaymentCompletion throws.
PPC_RpcError(r) ==
    /\ reqs[r].pc = "ppc_rpc"
    /\ Respond(r, reqs[r].kind,
               IF reqs[r].kind = "success_redirect" THEN 302 ELSE 500,
               "processing_failed")
    /\ UNCHANGED <<cfg, scheme, store>>

\* What the reads and the insert of createEnrollmentSubjects come to: the
\* enrollment lookup returns nothing, the student is missing, the subject query
\* fails or finds nothing, the insert fails, a call throws, or the rows are
\* inserted.
SubjectOutcomes == {"no_enrollment", "no_student", "subjects_error",
                    "no_subjects", "insert_error", "throws", "inserted"}

\* The post-step inserts enrollment_subjects rows.
CreatesSubjects(payment_type, outcome) ==
    /\ outcome = "inserted"
    /\ enrollment.status = "Enrolled"
    /\ payment_type \in {"full_payment", "downpayment"}
    /\ enrollment.subjects = "none"

\* The post-step whose insert error and exception reach the caller.
PostResultPropagating(outcome) ==
    IF outcome \in {"insert_error", "throws"} THEN "processing_failed"
    ELSE "processed"

\* What processPaymentCompletion returns after the post-step: every failure
\* of createEnrollmentSubjects is logged and the function returns success.
PostResult(outcome) == "processed"

\* Post-transaction processing: the enrollment is read, its subjects are
\* created when they are due, and the handler answers.
PPC_Post(r) ==
    /\ reqs[r].pc = "ppc_post"
    /\ \E outcome \in SubjectOutcomes :
          /\ enrollment' =
                IF CreatesSubjects(reqs[r].payment.payment_type, outcome)
                THEN [enrollment EXCEPT !.subjects = "created"]
                ELSE enrollment
          /\ Respond(r, reqs[r].kind,
                     IF PostResult(outcome) = "processed"
                     THEN CompletionCode(reqs[r].kind)
                     ELSE IF reqs[r].kind = "success_redirect" THEN 302 ELSE 500,
                     PostResult(outcome))
    /\ UNCHANGED <<cfg, scheme, accounts, enrollment_fees, payment_installments,
                   payments, payment_transactions, account_transactions>>

\* A handler has read the payments row pid and hands it to
\* processPaymentCompletion, which returns at once for a Completed payment.
\* first: the responses the handler has sent before the call.
Handed(kind, pid, first) ==
    IF AlreadyCompleted(payments[pid])
    THEN [IdleReq EXCEPT !.kind = kind, !.pc = "done", !.pid = pid,
                         !.code = CompletionCode(kind),
                         !.tag = "already_processed",
                         !.sent = IF first = 0 THEN 1 ELSE first + 2]
    ELSE [IdleReq EXCEPT !.kind = kind, !.pc = "ppc_rpc", !.pid = pid,
                         !.payment = payments[pid], !.sent = first]

Complete(r, kind, pid, first) ==
    reqs' = [reqs EXCEPT ![r] = Handed(kind, pid, first)]

\* GET /payment/success: the payment is read; for a Completed payment a
\* redirect is sent and the handler still goes on to the completion and to its
\* final redirect, which throws and makes the catch block redirect once more.
SR_Start(r, pid) ==
    /\ Free(r)
    /\ IF ~PaymentExists(pid)
         THEN Respond(r, "success_redirect", 302, "payment_not_found")
         ELSE Complete(r, "success_redirect", pid,
                       IF payments[pid].status = "Completed" THEN 1 ELSE 0)
    /\ UNCHANGED <<cfg, scheme, store>>

----------------------------------------------------------------------------
(* Webhook Verifier and the enrollment-billing webhook *)

WebhookSecret == "whsec"

\* crypto.createHmac("sha256", key).update(body).digest("hex")
HmacHex(key, body) == <<key, body>>

NoSignature == <<"", "">>

\* The s= part of the header: what follows "s=" in a structured header.
SignaturePart(header) ==
    IF header.form = "structured" THEN header.sig ELSE NoSignature

\* A verification that only asks for an s= part in the header.
BillingVerifyPresence(body, header) ==
    IF ~(cfg.enabled /\ cfg.webhook_secret) THEN "skipped"
    ELSE IF header.form = "absent" THEN "missing"
    ELSE IF SignaturePart(header) = NoSignature THEN "invalid"
    ELSE "verified"

\* The signature check of the enrollment-billing webhook.
BillingVerify(body, header) ==
    IF ~(cfg.enabled /\ cfg.webhook_secret) THEN "skipped"
    ELSE IF header.form = "absent" THEN "missing"
    ELSE IF SignaturePart(header) = NoSignature
            \/ SignaturePart(header) # HmacHex(WebhookSecret, body)
    THEN "invalid"
    ELSE "verified"

\* metadata.payment_category that the checkout of a payment_type carries:
\* the billing router creates full_payment, downpayment and installment
\* payments, the payments router enrollment, balance and monthly payments.
Category(payment_type) ==
    IF payment_type \in {"full_payment", "downpayment", "installment"}
    THEN "enrollment" ELSE "tuition"

EventTypes == {"checkout_session.payment.paid", "payment.failed"}

\* The event the gateway sends about payment pid (0: an event without
\* metadata.payment_id), with the metadata its checkout was created with.
EventOf(type, pid) ==
    [type |-> type, payment_id |-> pid,
     payment_category |-> IF pid = 0 THEN "none"
                          ELSE Category(payments[pid].payment_type),
     payment_type |-> IF pid = 0 THEN "none" ELSE payments[pid].payment_type]

\* The request bodies that arrive for an event: the event itself, or the
\* event with its payment_id changed on the way.
Deliveries(event) ==
    {[event EXCEPT !.payment_id = p] : p \in 0..MaxPayments}

\* The paymongo-signature headers that arrive with an event: none, one without
\* an s= part, the structured header and the bare digest, signed with the
\* webhook secret or with another key.
Headers(event) ==
    {[form |-> "absent", sig |-> NoSignature],
     [form |-> "no_s", sig |-> NoSignature]}
    \cup {[form |-> f, sig |-> HmacHex(k, event)] :
            f \in {"structured", "bare"}, k \in {WebhookSecret, "other"}}

\* The body is not the one the signature of the header was computed over.
Tampered(body, header) ==
    header.sig # NoSignature /\ header.sig[2] # body

\* The application parses the body before the router sees it: as a Buffer
\* under /enrollment and /billing, where express.raw is mounted ahead of
\* express.json, and as an object under the other mounts of the router.
Mounts == {"raw", "json"}

\* req.body.toString("utf8"): the text of a Buffer, "[object Object]" of an
\* object, which is the text of no event.
ObjectText == [type |-> "[object Object]", payment_id |-> 0,
               payment_category |-> "none", payment_type |-> "none"]
RawBody(mount, body) == IF mount = "raw" THEN body ELSE ObjectText

\* typeof req.body === "string" ? JSON.parse(req.body) : req.body, and then
\* event.data?.attributes?.type: a Buffer has no data.
NoEvent == [type |-> "undefined", payment_id |-> 0,
            payment_category |-> "none", payment_type |-> "none"]
ParsedEvent(mount, body) == IF mount = "raw" THEN NoEvent ELSE body

\* The handler that does not look at metadata.payment_category.
BillingWebhookAnswerAnyCategory(r, mount, body, header) ==
    LET verdict == BillingVerify(RawBody(mount, body), header)
        event == ParsedEvent(mount, body)
    IN  IF verdict \in {"missing", "invalid"}
        THEN Response(r, "billing_webhook", 401, verdict)
        ELSE IF event.type # "checkout_session.payment.paid"
        THEN Response(r, "billing_webhook", 200, "received")
        ELSE IF event.payment_id = 0
        THEN Response(r, "billing_webhook", 400, "invalid_webhook_data")
        ELSE IF ~PaymentExists(event.payment_id)
        THEN Response(r, "billing_webhook", 404, "payment_not_found")
        ELSE Handed("billing_webhook", event.payment_id, 0)

\* What the handler of POST /webhook/paymongo does with a request, up to the
\* read of the payment: the record of its slot.
BillingWebhookAnswer(r, mount, body, header) ==
    LET verdict == BillingVerify(RawBody(mount, body), header)
        event == ParsedEvent(mount, body)
    IN  IF verdict \in {"missing", "invalid"}
        THEN Response(r, "billing_webhook", 401, verdict)
        ELSE IF event.type # "checkout_session.payment.paid"
        THEN Response(r, "billing_webhook", 200, "received")
        ELSE IF event.payment_category # "enrollment"
        THEN Response(r, "billing_webhook", 200, "skipped")
        ELSE IF event.payment_id = 0
        THEN Response(r, "billing_webhook", 400, "invalid_webhook_data")
        ELSE IF ~PaymentExists(event.payment_id)
        THEN Response(r, "billing_webhook", 404, "payment_not_found")
        ELSE Handed("billing_webhook", event.payment_id, 0)

\* POST /webhook/paymongo of the billing router.  The slot keeps, for the
\* record, whether the body was changed after it was signed.
BW_Start(r, mount, body, header) ==
    /\ Free(r)
    /\ reqs' = [reqs EXCEPT ![r] =
            [BillingWebhookAnswer(r, mount, body, header)
                EXCEPT !.tampered = Tampered(body, header),
                       !.header = header.form]]
    /\ UNCHANGED <<cfg, scheme, store>>

----------------------------------------------------------------------------
(* The payments router: tuition webhook and mock completion *)

\* The handler has read the payment with its account and starts the ledger
\* updates, which it issues one store call after the other.
TuitionBegin(r, kind, pid) ==
    reqs' = [reqs EXCEPT ![r] =
        [IdleReq EXCEPT !.kind = kind, !.pc = "tl_payment", !.pid = pid,
                        !.payment = payments[pid],
                        !.balance = accounts[payments[pid].account_id]]]

\* POST /webhook of the payments router: no signature is checked.
TW_Start(r, body) ==
    /\ Free(r)
    /\ IF body.type # "checkout_session.payment.paid"
         THEN Respond(r, "tuition_webhook", 200, "event_noted")
         ELSE IF body.payment_id = 0
         THEN Respond(r, "tuition_webhook", 400, "missing_payment_id")
         ELSE IF body.payment_category = "enrollment"
         THEN IF ~PaymentExists(body.payment_id)
              THEN Respond(r, "tuition_webhook", 500, "processing_failed")
              ELSE Complete(r, "tuition_webhook", body.payment_id, 0)
         ELSE IF ~PaymentExists(body.payment_id)
         THEN Respond(r, "tuition_webhook", 404, "payment_not_found")
         ELSE TuitionBegin(r, "tuition_webhook", body.payment_id)
    /\ UNCHANGED <<cfg, scheme, store>>

\* POST /mock-complete/:payment_id with success true or false.
MC_Start(r, pid, success) ==
    /\ Free(r)
    /\ IF PaymentsGatewayOn
         THEN Respond(r, "mock_complete", 403, "not_allowed")
         ELSE IF ~PaymentExists(pid)
         THEN Respond(r, "mock_complete", 404, "payment_not_found")
         ELSE IF success
         THEN TuitionBegin(r, "mock_complete", pid)
         ELSE reqs' = [reqs EXCEPT ![r] =
                 [IdleReq EXCEPT !.kind = "mock_complete", !.pc = "mf_payment",
                                 !.pid = pid, !.payment = payments[pid]]]
    /\ UNCHANGED <<cfg, scheme, store>>

\* update payments set status = 'Completed'
TL_Payment(r) ==
    /\ reqs[r].pc = "tl_payment"
    /\ SetPaymentStatus(reqs[r].pid, "Completed")
    /\ reqs' = [reqs EXCEPT ![r].pc = "tl_ptx"]
    /\ UNCHANGED <<cfg, scheme, enrollment, accounts, enrollment_fees,
                   payment_installments, payment_transactions,
                   account_transactions>>

\* update payment_transactions set status = 'paid', then the branch on
\* payment.payment_type is taken.
TL_Ptx(r) ==
    /\ reqs[r].pc = "tl_ptx"
    /\ SetTransactionStatus(reqs[r].pid, "paid")
    /\ reqs' = [reqs EXCEPT ![r].pc =
            IF reqs[r].payment.payment_type = "enrollment" THEN "tl_fees"
            ELSE IF reqs[r].payment.payment_type \in {"balance", "monthly"}
            THEN "tl_balance"
            ELSE "tl_log"]
    /\ UNCHANGED <<cfg, scheme, enrollment, accounts, enrollment_fees,
                   payment_installments, payments, account_transactions>>

\* update enrollment_fees set is_paid = true where is_paid = false
TL_Fees(r) ==
    /\ reqs[r].pc = "tl_fees"
    /\ enrollment_fees' = AllFeesPaid(enrollment_fees)
    /\ reqs' = [reqs EXCEPT ![r].pc = "tl_log"]
    /\ UNCHANGED <<cfg, scheme, enrollment, accounts, payment_installments,
                   payments, payment_transactions, account_transactions>>

\* update accounts set total_balance = Math.max(0, previous_balance - amount)
TL_Balance(r) ==
    /\ reqs[r].pc = "tl_balance"
    /\ accounts' = [accounts EXCEPT ![reqs[r].payment.account_id] =
                        Max(0, reqs[r].balance - reqs[r].payment.amount)]
    /\ reqs' = [reqs EXCEPT ![r].pc =
            IF reqs[r].payment.payment_type = "monthly"
               /\ reqs[r].payment.enrollment_id # 0
            THEN "tl_installment" ELSE "tl_log"]
    /\ UNCHANGED <<cfg, scheme, enrollment, enrollment_fees, payment_installments,
                   payments, payment_transactions, account_transactions>>

\* update payment_installments set status = 'paid' where status = 'pending'
\* order by due_date limit 1
TL_Installment(r) ==
    /\ reqs[r].pc = "tl_installment"
    /\ payment_installments' = InstallmentPaid(FirstPendingByDueDate, reqs[r].pid)
    /\ reqs' = [reqs EXCEPT ![r].pc = "tl_log"]
    /\ UNCHANGED <<cfg, scheme, enrollment, accounts, enrollment_fees,
                   payments, payment_transactions, account_transactions>>

\* insert into account_transactions, then the response
TL_Log(r) ==
    /\ reqs[r].pc = "tl_log"
    /\ Len(account_transactions) < MaxTx
    /\ account_transactions' =
          Append(account_transactions,
                 LogRow(reqs[r].pid, reqs[r].payment.amount, reqs[r].balance,
                        Max(0, reqs[r].balance - reqs[r].payment.amount)))
    /\ Respond(r, reqs[r].kind, 200, "completed")
    /\ UNCHANGED <<cfg, scheme, enrollment, accounts, enrollment_fees,
                   payment_installments, payments, payment_transactions>>

\* mock-complete with success = false: update payments set status = 'Failed'
MF_Payment(r) ==
    /\ reqs[r].pc = "mf_payment"
    /\ SetPaymentStatus(reqs[r].pid, "Failed")
    /\ reqs' = [reqs EXCEPT ![r].pc = "mf_ptx"]
    /\ UNCHANGED <<cfg, scheme, enrollment, accounts, enrollment_fees,
                   payment_installments, payment_transactions,
                   account_transactions>>

\* update payment_transactions set status = 'failed'
MF_Ptx(r) ==
    /\ reqs[r].pc = "mf_ptx"
    /\ SetTransactionStatus(reqs[r].pid, "failed")
    /\ Respond(r, reqs[r].kind, 200, "failed")
    /\ UNCHANGED <<cfg, scheme, enrollment, accounts, enrollment_fees,
                   payment_installments, payments, account_transactions>>

----------------------------------------------------------------------------
(* The raw-SQL PayMongo webhook *)

\* verifyWebhookSignature: the whole header is compared with the digest by
\* timingSafeEqual, which throws for an absent header and for a header whose
\* length is not the digest's.
RawVerify(body, header) ==
    IF ~cfg.webhook_secret \/ header.form # "bare" THEN "throws"
    ELSE IF header.sig = HmacHex(WebhookSecret, body) THEN "verified"
    ELSE "invalid"

\* handlePaymentSuccess between BEGIN and COMMIT: the branch is taken on
\* metadata.payment_type.
HandlePaymentSuccess(pid, payment_type) ==
    LET amount == payments[pid].amount
        account_id == payments[pid].account_id
        current_balance == accounts[account_id]
        new_balance == IF payment_type = "enrollment" THEN current_balance + amount
                       ELSE current_balance - amount
        logged == payment_type \in {"enrollment", "balance"}
    IN  /\ logged => Len(account_transactions) < MaxTx
        /\ SetPaymentStatus(pid, "Completed")
        /\ SetTransactionStatus(pid, "paid")
        /\ enrollment_fees' = IF payment_type = "enrollment"
                              THEN AllFeesPaid(enrollment_fees)
                              ELSE enrollment_fees
        /\ enrollment' = IF payment_type = "enrollment"
                         THEN [enrollment EXCEPT !.status = "Enrolled"]
                         ELSE enrollment
        /\ accounts' = IF logged
                       THEN [accounts EXCEPT ![account_id] = new_balance]
                       ELSE accounts
        /\ account_transactions' =
              IF logged
              THEN Append(account_transactions,
                          LogRow(pid, amount, current_balance, new_balance))
              ELSE account_transactions
        /\ UNCHANGED payment_installments

\* The raw-SQL webhook answers; the slot keeps the form of the header it got.
RawRespond(r, code, tag, header) ==
    reqs' = [reqs EXCEPT ![r] =
        [Response(r, "raw_webhook", code, tag) EXCEPT !.header = header.form]]

\* POST /paymongo of the raw-SQL webhook router, a checkout_session.payment.paid
\* event: the whole of handlePaymentSuccess is one transaction of the store.
RW_Paid(r, body, header) ==
    /\ Free(r)
    /\ body.type = "checkout_session.payment.paid"
    /\ IF RawVerify(body, header) = "throws"
         THEN RawRespond(r, 500, "verify_throws", header)
              /\ UNCHANGED store
         ELSE IF RawVerify(body, header) = "invalid"
         THEN RawRespond(r, 401, "invalid", header)
              /\ UNCHANGED store
         ELSE IF ~PaymentExists(body.payment_id)
         THEN RawRespond(r, 500, "payment_not_found", header)
              /\ UNCHANGED store
         ELSE /\ HandlePaymentSuccess(body.payment_id, body.payment_type)
              /\ reqs' = [reqs EXCEPT ![r] =
                    [IdleReq EXCEPT !.kind = "raw_webhook", !.pc = "done",
                                    !.pid = body.payment_id,
                                    !.code = 200, !.tag = "received", !.sent = 1,
                                    !.header = header.form]]
    /\ UNCHANGED <<cfg, scheme>>

\* A payment.failed event: handlePaymentFailed sets the payment Failed.
RW_Failed(r, body, header) ==
    /\ Free(r)
    /\ body.type = "payment.failed"
    /\ IF RawVerify(body, header) = "throws"
         THEN RawRespond(r, 500, "verify_throws", header)
              /\ UNCHANGED payments
         ELSE IF RawVerify(body, header) = "invalid"
         THEN RawRespond(r, 401, "invalid", header)
              /\ UNCHANGED payments
         ELSE IF body.payment_id = 0
         THEN RawRespond(r, 200, "received", header)
              /\ UNCHANGED payments
         ELSE /\ SetPaymentStatus(body.payment_id, "Failed")
              /\ reqs' = [reqs EXCEPT ![r] =
                    [IdleReq EXCEPT !.kind = "raw_webhook", !.pc = "rf_ptx",
                                    !.pid = body.payment_id,
                                    !.header = header.form]]
    /\ UNCHANGED <<cfg, scheme, enrollment, accounts, enrollment_fees,
                   payment_installments, payment_transactions,
                   account_transactions>>

\* update payment_transactions set status = 'failed'
RF_Ptx(r) ==
    /\ reqs[r].pc = "rf_ptx"
    /\ SetTransactionStatus(reqs[r].pid, "failed")
    /\ Respond(r, "raw_webhook", 200, "received")
    /\ UNCHANGED <<cfg, scheme, enrollment, accounts, enrollment_fees,
                   payment_installments, payments, account_transactions>>

----------------------------------------------------------------------------
(* Cancellation *)

\* if (payment.status !== 'Pending') of POST /cancel/:payment_id
Cancellable(payment) == payment.status = "Pending"

\* POST /cancel/:payment_id of the payments router: the status is read and
\* checked; the updates follow as separate store calls.
AC_Start(r, pid) ==
    /\ Free(r)
    /\ IF ~PaymentExists(pid)
         THEN Respond(r, "admin_cancel", 404, "payment_not_found")
         ELSE IF ~Cancellable(payments[pid])
         THEN reqs' = [reqs EXCEPT ![r] =
                 [IdleReq EXCEPT !.kind = "admin_cancel", !.pc = "done",
                                 !.pid = pid, !.code = 400, !.tag = "cannot_cancel",
                                 !.sent = 1]]
         ELSE reqs' = [reqs EXCEPT ![r] =
                 [IdleReq EXCEPT !.kind = "admin_cancel", !.pc = "ac_payment",
                                 !.pid = pid, !.payment = payments[pid]]]
    /\ UNCHANGED <<cfg, scheme, store>>

\* update payments set status = 'Cancelled'
AC_Payment(r) ==
    /\ reqs[r].pc = "ac_payment"
    /\ SetPaymentStatus(reqs[r].pid, "Cancelled")
    /\ reqs' = [reqs EXCEPT ![r].pc = "cancel_ptx"]
    /\ UNCHANGED <<cfg, scheme, enrollment, accounts, enrollment_fees,
                   payment_installments, payment_transactions,
                   account_transactions>>

\* A cancel callback: the payment is set Cancelled whatever its status is.
CancelCallback(r, kind, pid) ==
    /\ Free(r)
    /\ SetPaymentStatus(pid, "Cancelled")
    /\ reqs' = [reqs EXCEPT ![r] =
            [IdleReq EXCEPT !.kind = kind, !.pc = "cancel_ptx", !.pid = pid]]
    /\ UNCHANGED <<cfg, scheme, enrollment, accounts, enrollment_fees,
                   payment_installments, payment_transactions,
                   account_transactions>>

\* GET /payment/cancel of the billing router
BC_Start(r, pid) == CancelCallback(r, "billing_cancel", pid)

\* GET /api/payment/cancel of the application
APC_Start(r, pid) == CancelCallback(r, "app_cancel", pid)

\* update payment_transactions set status = 'cancelled', then the response
Cancel_Ptx(r) ==
    /\ reqs[r].pc = "cancel_ptx"
    /\ SetTransactionStatus(reqs[r].pid, "cancelled")
    /\ Respond(r, reqs[r].kind,
               IF reqs[r].kind = "billing_cancel" THEN 302 ELSE 200, "cancelled")
    /\ UNCHANGED <<cfg, scheme, enrollment, accounts, enrollment_fees,
                   payment_installments, payments, account_transactions>>

----------------------------------------------------------------------------
(* Specifications *)

\* Offline development: no gateway keys, no webhook secret.
DevConfig ==
    [enabled |-> FALSE, secret_key |-> FALSE, webhook_secret |-> FALSE,
     public_offline |-> TRUE]

\* Production: the gateway is enabled and every key is set.
ProdConfig ==
    [enabled |-> TRUE, secret_key |-> TRUE, webhook_secret |-> TRUE,
     public_offline |-> FALSE]

Configurations ==
    [enabled : BOOLEAN, secret_key : BOOLEAN, webhook_secret : BOOLEAN,
     public_offline : BOOLEAN]

FullPaymentScheme ==
    [scheme_type |-> "full_payment", amount |-> 3, discount |-> 1,
     downpayment |-> 0, monthly_payment |-> 0, months |-> MonthsMissing]

InstallmentScheme ==
    [scheme_type |-> "installment", amount |-> 1 + MaxMonths, discount |-> 0,
     downpayment |-> 1, monthly_payment |-> 1, months |-> MaxMonths]

MainSchemes == {FullPaymentScheme, InstallmentScheme}

MainDates == {<<0, 31>>}

SeqSlots == {1}
Slots == {1, 2}

PaymentIds == 1..MaxPayments

\* The header the gateway sends with an event, and the bare digest.
GenuineHeaders(event) ==
    {[form |-> f, sig |-> HmacHex(WebhookSecret, event)] :
        f \in {"structured", "bare"}}

InitWith(schemes, configurations) ==
    /\ cfg \in configurations
    /\ scheme \in schemes
    /\ enrollment = [status |-> "Pending", subjects |-> "none"]
    /\ accounts = <<>>
    /\ enrollment_fees = <<>>
    /\ payment_installments = <<>>
    /\ payments = <<>>
    /\ payment_transactions = <<>>
    /\ account_transactions = <<>>
    /\ reqs = [r \in Slots |-> IdleReq]

\* generateBilling when no store call fails
Billing(r, dates) ==
    \/ GB_Start(r) \/ GB_Account(r) \/ GB_Fee(r)
    \/ \E now \in dates : GB_Installments(r, now)

\* the store calls of generateBilling that fail
BillingFailures(r) ==
    \/ GB_AccountError(r) \/ GB_FeeError(r)
    \/ GB_InstallmentsError(r) \/ GB_Rollback(r)

\* create-checkout of the billing router
Checkout(r) ==
    \/ CC_Start(r) \/ CC_Insert(r) \/ CC_Gateway(r) \/ CC_GatewayError(r)
    \/ CC_Ptx(r)

\* create-checkout of the payments router
TuitionCheckout(r) ==
    \/ \E t \in {"enrollment", "balance", "monthly"}, c \in {0, 1} :
          TC_Start(r, t, c)
    \/ TC_Account(r) \/ TC_Insert(r)
    \/ TC_Gateway(r) \/ TC_GatewayError(r) \/ TC_Ptx(r)

\* processPaymentCompletion after the payment was read
Completion(r) == PPC_Rpc(r) \/ PPC_RpcError(r) \/ PPC_Post(r)

\* the ledger updates of the tuition webhook and of mock-complete
TuitionLedger(r) ==
    \/ TL_Payment(r) \/ TL_Ptx(r) \/ TL_Fees(r) \/ TL_Balance(r)
    \/ TL_Installment(r) \/ TL_Log(r)

\* the updates of mock-complete with success = false
MockFailure(r) == MF_Payment(r) \/ MF_Ptx(r)

Cancels(r) ==
    \/ \E pid \in PaymentIds : AC_Start(r, pid) \/ BC_Start(r, pid) \/ APC_Start(r, pid)
    \/ AC_Payment(r) \/ Cancel_Ptx(r)

\* GET /payment/success for any payment id
SuccessRedirect(r) == \E pid \in PaymentIds : SR_Start(r, pid)

\* POST /webhook/paymongo of the billing router with the gateway's events
BillingWebhook(r) ==
    \E t \in EventTypes, p \in 0..Len(payments) :
        \E header \in GenuineHeaders(EventOf(t, p)) :
            \E mount \in Mounts : BW_Start(r, mount, EventOf(t, p), header)

\* POST /webhook of the payments router with the gateway's events
TuitionWebhook(r) ==
    \E t \in EventTypes, p \in 0..Len(payments) : TW_Start(r, EventOf(t, p))

\* POST /paymongo of the raw-SQL router with the gateway's events
RawWebhook(r) ==
    \/ \E t \in EventTypes, p \in 0..Len(payments) :
          \E header \in GenuineHeaders(EventOf(t, p)) :
              \/ RW_Paid(r, EventOf(t, p), header)
              \/ RW_Failed(r, EventOf(t, p), header)
    \/ RF_Ptx(r)

MockComplete(r) ==
    \E pid \in PaymentIds, success \in BOOLEAN : MC_Start(r, pid, success)

Init == InitWith(MainSchemes, {DevConfig, ProdConfig})

\* The enrollment-billing flow: billing, checkout and the two triggers of
\* processPaymentCompletion, one request at a time.
NextCompletion ==
    \E r \in SeqSlots :
        \/ Billing(r, MainDates) \/ Checkout(r)
        \/ SuccessRedirect(r) \/ BillingWebhook(r) \/ Completion(r)

SpecCompletion == Init /\ [][NextCompletion]_vars

\* The same flow with two requests in flight.
NextRace ==
    \/ \E r \in SeqSlots : (\A q \in Slots : Free(q)) /\ (GB_Start(r) \/ CC_Start(r))
    \/ \E r \in SeqSlots :
          \/ GB_Account(r) \/ GB_Fee(r)
          \/ \E now \in MainDates : GB_Installments(r, now)
          \/ CC_Insert(r) \/ CC_Gateway(r) \/ CC_GatewayError(r) \/ CC_Ptx(r)
    \/ \E r \in Slots :
          \/ SuccessRedirect(r) \/ BillingWebhook(r) \/ Completion(r)

SpecRace == Init /\ [][NextRace]_vars

\* The payments router: tuition checkout, tuition webhook and mock-complete.
NextTuition ==
    \E r \in SeqSlots :
        \/ Billing(r, MainDates) \/ Checkout(r) \/ TuitionCheckout(r)
        \/ TuitionWebhook(r) \/ MockComplete(r) \/ TuitionLedger(r)
        \/ MockFailure(r) \/ Completion(r)

SpecTuition == Init /\ [][NextTuition]_vars

\* The raw-SQL webhook on payments of the payments router.
NextRaw ==
    \E r \in SeqSlots :
        \/ Billing(r, MainDates) \/ TuitionCheckout(r) \/ RawWebhook(r)

SpecRaw == Init /\ [][NextRaw]_vars

\* Completion and cancellation of the payments of the billing router.
NextStatus ==
    \E r \in SeqSlots :
        \/ Billing(r, MainDates) \/ Checkout(r)
        \/ SuccessRedirect(r) \/ Completion(r)
        \/ \E pid \in PaymentIds : MC_Start(r, pid, FALSE)
        \/ MockFailure(r)
        \/ Cancels(r)

SpecStatus == Init /\ [][NextStatus]_vars

\* Billing generation over every kind of scheme and date, with the store
\* calls that fail, followed by the checkout and completion of its payments.
BillingSchemes ==
    {[scheme_type |-> "full_payment", amount |-> 3, discount |-> d,
      downpayment |-> 0, monthly_payment |-> 0, months |-> MonthsMissing] :
        d \in {1, 3}}
    \cup {[scheme_type |-> "installment", amount |-> 5, discount |-> 0,
           downpayment |-> d, monthly_payment |-> 1, months |-> m] :
             d \in {0, 1}, m \in {MonthsMissing} \cup 0..MaxMonths}
    \cup {[scheme_type |-> "custom", amount |-> 3, discount |-> 0,
           downpayment |-> 0, monthly_payment |-> 0, months |-> MonthsMissing]}

BillingDates == {<<m, d>> : m \in {0, 7, 11}, d \in {15, 29, 30, 31}}

InitBilling == InitWith(BillingSchemes, {DevConfig, ProdConfig})

NextBilling ==
    \E r \in SeqSlots :
        \/ Billing(r, BillingDates) \/ BillingFailures(r) \/ Checkout(r)
        \/ SuccessRedirect(r) \/ Completion(r)

SpecBilling == InitBilling /\ [][NextBilling]_vars

\* The enrollment-billing webhook under every configuration, with bodies
\* changed on the way and every form of signature header.
BillingWebhookDeliveries(r) ==
    \E t \in EventTypes, p \in 0..Len(payments), mount \in Mounts :
        \E body \in Deliveries(EventOf(t, p)), header \in Headers(EventOf(t, p)) :
            BW_Start(r, mount, body, header)

\* public_offline is read by the payments router only.
WebhookConfigurations == {c \in Configurations : ~c.public_offline}

InitWebhook == InitWith(MainSchemes, WebhookConfigurations)

NextWebhook ==
    \E r \in SeqSlots :
        \/ Billing(r, MainDates) \/ Checkout(r)
        \/ BillingWebhookDeliveries(r) \/ Completion(r)

SpecWebhook == InitWebhook /\ [][NextWebhook]_vars

\* Both webhook verifiers with every form of signature header.
RawWebhookDeliveries(r) ==
    \/ \E t \in EventTypes, p \in 0..Len(payments) :
          \E body \in Deliveries(EventOf(t, p)), header \in Headers(EventOf(t, p)) :
              \/ RW_Paid(r, body, header)
              \/ RW_Failed(r, body, header)
    \/ RF_Ptx(r)

NextVerifier ==
    \E r \in SeqSlots :
        \/ Billing(r, MainDates) \/ Checkout(r)
        \/ BillingWebhookDeliveries(r) \/ RawWebhookDeliveries(r)
        \/ Completion(r)

SpecVerifier == Init /\ [][NextVerifier]_vars

\* The payments router on its own payments: checkout, tuition webhook and
\* mock-complete, whose ledger updates are statements of the router.
NextLedger ==
    \E r \in SeqSlots :
        \/ Billing(r, MainDates) \/ TuitionCheckout(r)
        \/ TuitionWebhook(r) \/ MockComplete(r) \/ TuitionLedger(r)
        \/ MockFailure(r)

SpecLedger == Init /\ [][NextLedger]_vars

----------------------------------------------------------------------------
(* Properties *)

\* The account_transactions rows of payment pid.
LogRows(pid) ==
    Cardinality({i \in DOMAIN account_transactions :
                    account_transactions[i].payment_id = pid})

\* The installment rows marked paid by payment pid.
PaidBy(pid) ==
    {i \in DOMAIN payment_installments : payment_installments[i].payment_id = pid}

\* C1: with one request at a time, the effect of a payment is applied exactly
\* once however often processPaymentCompletion is called for it: a Completed
\* payment has exactly one account_transactions row and at most one installment
\* row, a call for a payment whose effect is applied never reaches the store
\* transaction, and the call that answers already_processed changes no row of
\* the store.
C1_Idempotent ==
    /\ [](/\ \A p \in DOMAIN payments :
                /\ LogRows(p) <= 1
                /\ Cardinality(PaidBy(p)) <= 1
                /\ (payments[p].status = "Completed") <=> (LogRows(p) = 1)
          /\ \A r \in Slots :
                /\ reqs[r].pc = "ppc_rpc" => LogRows(reqs[r].pid) = 0
                /\ reqs[r].tag = "already_processed" => LogRows(reqs[r].pid) = 1)
    /\ [][\A r \in Slots :
             (reqs'[r] # reqs[r] /\ reqs'[r].tag = "already_processed")
                 => UNCHANGED store]_vars

\* A second trigger of an applied payment was answered already_processed.
C1_Witness ==
    \E r \in Slots :
        /\ reqs[r].tag = "already_processed"
        /\ reqs[r].kind = "billing_webhook"
        /\ LogRows(reqs[r].pid) = 1

\* C2: with two triggers of one payment in flight at once, the effect of the
\* payment is applied at most once: no payment has two account_transactions
\* rows.
C2_AppliedOnce ==
    \A p \in DOMAIN payments : LogRows(p) <= 1

\* C3: through every trigger (success redirect, billing webhook, tuition
\* webhook, mock-complete), one request at a time, a payment id gets at most
\* one account_transactions row and marks at most one installment row.
C3_EveryTriggerOnce ==
    \A p \in DOMAIN payments :
        LogRows(p) <= 1 /\ Cardinality(PaidBy(p)) <= 1

TerminalStatuses == {"Completed", "Cancelled", "Failed"}

\* C4: no step changes the status of a payment that is Completed, Cancelled or
\* Failed.
C4_OneWay ==
    [][\A p \in DOMAIN payments :
          payments[p].status \in TerminalStatuses
              => payments'[p].status = payments[p].status]_vars

CancelKinds == {"admin_cancel", "billing_cancel", "app_cancel"}

\* C5: a cancel request, at any cancel entry point, for a payment that is not
\* Pending is answered with an error and leaves the payments unchanged.
C5_CancelOnlyPending ==
    [][\A r \in Slots :
          (/\ Free(r)
           /\ reqs'[r] # reqs[r]
           /\ reqs'[r].kind \in CancelKinds
           /\ PaymentExists(reqs'[r].pid)
           /\ payments[reqs'[r].pid].status # "Pending")
              => (payments' = payments /\ reqs'[r].code = 400)]_vars

\* A generateBilling call has succeeded: its last insert is in the store.
BillingGenerated ==
    \/ \E i \in DOMAIN enrollment_fees : enrollment_fees[i].fee_type = "Tuition"
    \/ Len(payment_installments) > 0

\* C6: once a generateBilling call has succeeded (answered 200, which leaves
\* rows that no later step removes), every further generate-billing request
\* is answered 400 'already generated' and changes no row and no balance.
C6_SecondFails ==
    /\ [](\A r \in Slots :
             (reqs[r].kind = "generate_billing" /\ reqs[r].code = 200)
                 => BillingGenerated)
    /\ [][BillingGenerated => BillingGenerated']_vars
    /\ [][\A r \in Slots :
             (/\ BillingGenerated
              /\ reqs'[r] # reqs[r]
              /\ reqs'[r].kind = "generate_billing")
                 => (/\ reqs'[r].code = 400
                     /\ reqs'[r].tag = "already_generated"
                     /\ UNCHANGED store)]_vars

\* A second call was rejected, for a full-payment and for an installment plan.
C6_Witness ==
    \E r \in Slots :
        /\ reqs[r].kind = "generate_billing"
        /\ reqs[r].tag = "already_generated"
        /\ BillingGenerated
        /\ Len(payments) > 0

\* generateBilling has just answered 200 for an installment scheme.
InstallmentsGenerated ==
    \E r \in Slots :
        /\ reqs[r].kind = "generate_billing"
        /\ reqs[r].code = 200
        /\ reqs[r].tag = "installment"

\* One Downpayment fee and n pending installments numbered 1..n whose due
\* dates strictly increase.
PlanShape(n) ==
    /\ Len(enrollment_fees) = 1
    /\ enrollment_fees[1].fee_type = "Downpayment"
    /\ Len(payment_installments) = n
    /\ \A i \in DOMAIN payment_installments :
          /\ payment_installments[i].installment_number = i
          /\ payment_installments[i].status = "pending"
          /\ \A j \in DOMAIN payment_installments :
                i < j => payment_installments[i].due_date
                            < payment_installments[j].due_date

\* C7 as stated: a successful generateBilling for an installment scheme with
\* months = N, N = 0 when months is 0 or missing, leaves one Downpayment fee
\* and exactly N pending installments numbered 1..N with strictly increasing
\* due dates.
C7_Original ==
    InstallmentsGenerated
        => PlanShape(IF scheme.months = MonthsMissing THEN 0 ELSE scheme.months)

\* C7 amended: the same for months = N >= 1; when months is 0 or missing the
\* plan has exactly 4 installments numbered 1..4.
C7_Amended ==
    InstallmentsGenerated
        => PlanShape(IF scheme.months \in {0, MonthsMissing} THEN 4
                     ELSE scheme.months)

\* A plan was generated late in a month for a scheme without months.
C7_Witness ==
    /\ InstallmentsGenerated
    /\ scheme.months \in {0, MonthsMissing}
    /\ Len(payment_installments) = 4
    /\ payment_installments[1].due_date % 100 < 4

\* C8: once a request has completed an installment or monthly payment, exactly
\* one installment row is marked paid by it, and that row is numbered below
\* every row still pending.
C8_LowestPendingPaid ==
    \A r \in Slots :
        (/\ reqs[r].pc = "done"
         /\ reqs[r].tag \in {"completed", "processed"}
         /\ PaymentExists(reqs[r].pid)
         /\ payments[reqs[r].pid].payment_type \in {"installment", "monthly"})
            => /\ Cardinality(PaidBy(reqs[r].pid)) = 1
               /\ \A i \in PaidBy(reqs[r].pid), j \in PendingInstallments :
                     payment_installments[i].installment_number
                         < payment_installments[j].installment_number

\* C9: no account balance is ever negative, the raw-SQL webhook included.
C9_BalanceFloor ==
    \A a \in DOMAIN accounts : accounts[a] >= 0

VerificationActive == cfg.enabled /\ cfg.webhook_secret

\* C10: while verification is active, a billing-webhook request whose body was
\* changed after it was signed is answered 401 at once: the handler makes no
\* store call and no row changes.
C10_TamperedRejected ==
    [][\A r \in Slots :
          (/\ VerificationActive
           /\ reqs'[r] # reqs[r]
           /\ reqs'[r].kind = "billing_webhook"
           /\ reqs'[r].tampered)
              => (/\ reqs'[r].code = 401
                  /\ reqs'[r].pc = "done"
                  /\ UNCHANGED store)]_vars

\* A changed body that names an existing Pending payment was rejected.
C10_Witness ==
    \E r \in Slots :
        /\ VerificationActive
        /\ reqs[r].kind = "billing_webhook"
        /\ reqs[r].tampered
        /\ reqs[r].code = 401
        /\ reqs[r].tag = "invalid"
        /\ \E p \in DOMAIN payments : payments[p].status = "Pending"

\* C11: a webhook request whose signature header is absent or has no s= part
\* is answered 401 by both verifiers, the inline check of the billing webhook
\* and verifyWebhookSignature of the raw-SQL webhook, whenever they verify.
C11_BadInputRejected ==
    \A r \in Slots :
        (/\ reqs[r].pc = "done"
         /\ reqs[r].header \in {"absent", "no_s"}
         /\ \/ reqs[r].kind = "billing_webhook" /\ VerificationActive
            \/ reqs[r].kind = "raw_webhook" /\ cfg.webhook_secret)
            => reqs[r].code = 401

\* The handler of slot r is completing a payment or has answered for one.
PaymentCompleting(r) ==
    \/ reqs[r].pc \in {"ppc_rpc", "ppc_post", "tl_payment", "tl_ptx", "tl_fees",
                       "tl_balance", "tl_installment", "tl_log"}
    \/ /\ reqs[r].pc = "done"
       /\ reqs[r].tag \in {"processed", "completed", "already_processed"}

\* The request of slot r went through an HMAC check that it could only pass
\* with a signed header.
HmacVerified(r) ==
    /\ reqs[r].kind = "billing_webhook"
    /\ VerificationActive
    /\ reqs[r].header = "structured"

\* The router that got the request of slot r creates real checkouts.
GatewayEnabledFor(r) ==
    IF reqs[r].kind = "billing_webhook" THEN BillingGatewayOn
    ELSE PaymentsGatewayOn

\* C12: while the gateway is enabled, every request to the billing webhook or
\* to the tuition webhook that reaches payment completion has passed HMAC
\* signature verification.
C12_VerifiedInProduction ==
    \A r \in Slots :
        (/\ reqs[r].kind \in {"billing_webhook", "tuition_webhook"}
         /\ PaymentCompleting(r)
         /\ GatewayEnabledFor(r))
            => HmacVerified(r)

\* totalPaid of the diagnostic endpoint: the amounts of the Completed
\* payments of account a.
TotalPaid(a) ==
    SumAmounts(SelectSeq(payments,
                         LAMBDA p : p.status = "Completed" /\ p.account_id = a))

\* C13: once billing is generated and no request is in progress, the balance
\* of every account is the amount billed (scheme.amount - scheme.discount)
\* minus the amounts of its Completed payments, floored at zero.
C13_BalanceInvariant ==
    (BillingGenerated /\ \A r \in Slots : Free(r))
        => \A a \in DOMAIN accounts :
              accounts[a] = Max(0, TotalAmount(scheme) - TotalPaid(a))

\* The request of slot r goes on to insert a Pending payment of a type and an
\* amount.
Charges(req, payment_type, amount) ==
    /\ req.pc = "cc_insert"
    /\ req.payment.payment_type = payment_type
    /\ req.payment.amount = amount
    /\ req.payment.status = "Pending"

\* The request of slot r was refused.
Refused(req) == req.pc = "done" /\ req.code = 400

\* What a create-checkout request that arrives in the current state must do.
CheckoutRule(req) ==
    LET downpayments == {i \in DOMAIN enrollment_fees :
                            enrollment_fees[i].fee_type = "Downpayment"}
        unpaid == {i \in DOMAIN enrollment_fees : ~enrollment_fees[i].is_paid}
    IN  /\ (scheme.scheme_type = "full_payment" /\ unpaid = {}) => Refused(req)
        /\ (scheme.scheme_type = "full_payment" /\ unpaid # {})
              => Charges(req, "full_payment", SumAmounts(UnpaidFees))
        /\ (scheme.scheme_type = "installment" /\ downpayments # {})
              => \A d \in downpayments :
                    /\ (~enrollment_fees[d].is_paid /\ enrollment_fees[d].amount > 0)
                          => Charges(req, "downpayment", enrollment_fees[d].amount)
                    /\ (~enrollment_fees[d].is_paid /\ enrollment_fees[d].amount <= 0)
                          => Refused(req)
                    /\ (enrollment_fees[d].is_paid /\ PendingInstallments = {})
                          => Refused(req)
                    /\ (enrollment_fees[d].is_paid /\ PendingInstallments # {})
                          => \E i \in PendingInstallments :
                                /\ \A j \in PendingInstallments :
                                      payment_installments[i].installment_number
                                          <= payment_installments[j].installment_number
                                /\ Charges(req, "installment",
                                           payment_installments[i].amount)

\* C14: a create-checkout request of the billing router, once the account
\* exists, charges the sum of the unpaid fees as full_payment, the unpaid
\* Downpayment fee as downpayment, or the lowest-numbered pending installment
\* as installment, and is refused when nothing of the kind remains; the row it
\* inserts is the Pending payment it decided on, and a refusal inserts none.
C14_CheckoutPlan ==
    [][\A r \in Slots :
          /\ (/\ Free(r)
              /\ reqs'[r] # reqs[r]
              /\ reqs'[r].kind = "create_checkout")
                 => /\ payments' = payments
                    /\ Len(accounts) = 1 => CheckoutRule(reqs'[r])
          /\ (/\ reqs[r].kind = "create_checkout"
              /\ reqs[r].pc = "cc_insert"
              /\ reqs'[r] # reqs[r])
                 => payments' = Append(payments, reqs[r].payment)]_vars

\* Every installment was paid and a further checkout was refused.
C14_Witness ==
    \E r \in Slots :
        /\ reqs[r].kind = "create_checkout"
        /\ reqs[r].tag = "no_pending_installments"
        /\ Len(payments) = 2
        /\ payments[2].payment_type = "installment"

FeeBasedTypes == {"full_payment", "downpayment", "installment", "monthly"}

\* C15: no step of a handler that is completing a payment of type
\* full_payment, downpayment, installment or monthly changes an account
\* balance.
C15_FeeBasedKeepsBalance ==
    [][\A r \in Slots :
          (/\ reqs'[r] # reqs[r]
           /\ reqs[r].pc \in {"ppc_rpc", "tl_payment", "tl_ptx", "tl_fees",
                              "tl_balance", "tl_installment", "tl_log"}
           /\ reqs[r].payment.payment_type \in FeeBasedTypes)
              => accounts' = accounts]_vars

\* C16: in every reachable state a payment is Completed exactly when its
\* payment_transactions row is paid and exactly when it has an
\* account_transactions row.
C16_AtomicCompletion ==
    \A p \in DOMAIN payments :
        /\ (payments[p].status = "Completed") <=> (payment_transactions[p] = "paid")
        /\ (payments[p].status = "Completed") <=> (LogRows(p) >= 1)

GenerationErrors == {"account_error", "fee_error", "installments_error",
                     "invalid_scheme_type"}

\* C17: when generateBilling has returned an error after the existence and
\* amount checks, the store holds no enrollment_fees row, no
\* payment_installments row and no initialized account balance.
C17_AllOrNothing ==
    \A r \in Slots :
        (/\ reqs[r].kind = "generate_billing"
         /\ reqs[r].pc = "done"
         /\ reqs[r].tag \in GenerationErrors)
            => /\ enrollment_fees = <<>>
               /\ payment_installments = <<>>
               /\ accounts = <<>>

\* C18: a generateBilling call for an enrollment without billing whose scheme
\* amount minus discount is not positive answers 'Invalid billing amount' in
\* its first step and changes no row of the store, and no generateBilling call
\* for such a scheme ever gets as far as the account initialization.
C18_InvalidAmountNoWrite ==
    /\ [][\A r \in Slots :
            (/\ Free(r)
             /\ reqs'[r] # reqs[r]
             /\ reqs'[r].kind = "generate_billing"
             /\ ~BillingExists
             /\ scheme.amount - scheme.discount <= 0)
                => /\ reqs'[r].pc = "done"
                   /\ reqs'[r].code = 500
                   /\ reqs'[r].tag = "invalid_amount"
                   /\ store' = store]_vars
    /\ [](scheme.amount - scheme.discount <= 0
            => /\ accounts = <<>>
               /\ enrollment_fees = <<>>
               /\ payment_installments = <<>>
               /\ \A r \in Slots : reqs[r].kind = "generate_billing"
                                      => reqs[r].pc = "done")

C18_Witness ==
    \E r \in Slots :
        /\ reqs[r].kind = "generate_billing"
        /\ reqs[r].tag = "invalid_amount"
        /\ scheme.amount - scheme.discount <= 0

\* C19: the step in which create-checkout of the billing router ends after its
\* gateway call failed answers 500 'Payment gateway error', leaves the payment
\* it inserted Pending with no payment_transactions row and no
\* account_transactions row, changes no balance, fee or installment, and
\* leaves the store such that the next create-checkout plans the same charge
\* again instead of being refused.
C19_GatewayFailure ==
    [][\A r \in Slots :
          (/\ reqs[r].kind = "create_checkout"
           /\ reqs[r].pc = "cc_gateway"
           /\ reqs'[r].pc = "done"
           /\ reqs'[r].code # 200)
              => /\ reqs'[r].code = 500
                 /\ reqs'[r].tag = "gateway_error"
                 /\ payments'[reqs[r].pid].status = "Pending"
                 /\ payment_transactions'[reqs[r].pid] = "none"
                 /\ LogRows(reqs[r].pid)' = 0
                 /\ ledger' = ledger
                 /\ CheckoutPlan' = <<"none", reqs[r].payment.payment_type,
                                      reqs[r].payment.amount>>]_vars

\* A create-checkout that succeeded with a new payment after the gateway call
\* for the first payment had failed.
C19_Witness ==
    /\ BillingGatewayOn
    /\ Len(payments) = 2
    /\ payments[1].status = "Pending"
    /\ payment_transactions[1] = "none"
    /\ payment_transactions[2] = "pending"
    /\ \E r \in Slots :
          /\ reqs[r].kind = "create_checkout"
          /\ reqs[r].pid = 2
          /\ reqs[r].code = 200

\* C20: no step that sets a payment Cancelled or Failed changes a balance, a
\* fee, an installment or the account_transactions, and a payment that is
\* Cancelled or Failed has no account_transactions row and has marked no
\* installment paid.
C20_NoEffectWhenCancelled ==
    /\ [][\A p \in DOMAIN payments :
            (/\ payments'[p].status \in {"Cancelled", "Failed"}
             /\ payments'[p].status # payments[p].status)
                => ledger' = ledger]_vars
    /\ [](\A p \in DOMAIN payments :
            payments[p].status \in {"Cancelled", "Failed"}
                => LogRows(p) = 0 /\ PaidBy(p) = {})

\* C21: account_transactions only grows at its end, one row at a time, and the
\* balance_after of the row a completion appends is the total_balance the
\* account has once that row is written.
C21_TruthfulLog ==
    [][/\ Len(account_transactions') >= Len(account_transactions)
       /\ SubSeq(account_transactions', 1, Len(account_transactions))
              = account_transactions
       /\ Len(account_transactions') > Len(account_transactions)
              => /\ Len(account_transactions') = Len(account_transactions) + 1
                 /\ account_transactions'[Len(account_transactions')].balance_after
                        = accounts'[1]]_vars

\* C22: the step in which processPaymentCompletion ends after its store
\* transaction succeeded answers as a success whatever became of the subject
\* creation, changes nothing of the store but the enrollment's subjects, and
\* creates those only for an Enrolled enrollment without subjects and a
\* full_payment or downpayment payment.
C22_PostStepSwallowed ==
    [][\A r \in Slots :
          (reqs[r].pc = "ppc_post" /\ reqs'[r].pc = "done")
              => /\ reqs'[r].tag = "processed"
                 /\ reqs'[r].code = CompletionCode(reqs[r].kind)
                 /\ <<accounts, enrollment_fees, payment_installments, payments,
                      payment_transactions, account_transactions>>'
                        = <<accounts, enrollment_fees, payment_installments,
                            payments, payment_transactions, account_transactions>>
                 /\ enrollment'.status = enrollment.status
                 /\ enrollment' # enrollment
                        => /\ enrollment.status = "Enrolled"
                           /\ reqs[r].payment.payment_type
                                  \in {"full_payment", "downpayment"}
                           /\ enrollment.subjects = "none"]_vars

\* A completion that answered as a success although the subjects that were
\* due were not created.
C22_Witness ==
    \E r \in Slots :
        /\ reqs[r].pc = "done"
        /\ reqs[r].tag = "processed"
        /\ reqs[r].pid \in DOMAIN payments
        /\ payments[reqs[r].pid].payment_type = "full_payment"
        /\ payments[reqs[r].pid].status = "Completed"
        /\ enrollment.status = "Enrolled"
        /\ enrollment.subjects = "none"

\* generateBilling calls for one enrollment with two requests in flight.
NextConcurrentBilling ==
    \E r \in Slots : Billing(r, MainDates) \/ BillingFailures(r)

SpecConcurrentBilling == InitBilling /\ [][NextConcurrentBilling]_vars

FeesOfType(t) == {i \in DOMAIN enrollment_fees : enrollment_fees[i].fee_type = t}

\* C23: the store never holds more than one billing plan of the enrollment:
\* at most one Tuition fee, at most one Downpayment fee, and no two
\* payment_installments rows with the same installment_number.
C23_OnePlan ==
    /\ Cardinality(FeesOfType("Tuition")) <= 1
    /\ Cardinality(FeesOfType("Downpayment")) <= 1
    /\ \A i, j \in DOMAIN payment_installments :
          payment_installments[i].installment_number
              = payment_installments[j].installment_number => i = j

\* Both routers with both webhooks: the payments of either checkout and the
\* gateway's events about them, delivered to either webhook.
InitRouting == InitWith({FullPaymentScheme}, {DevConfig, ProdConfig})

\* create-checkout of the payments router for a balance payment of 1
BalanceCheckout(r) ==
    \/ TC_Start(r, "balance", 1) \/ TC_Account(r) \/ TC_Insert(r)
    \/ TC_Gateway(r) \/ TC_GatewayError(r) \/ TC_Ptx(r)

NextRouting ==
    \E r \in SeqSlots :
        \/ GB_Start(r) \/ GB_Account(r) \/ GB_Fee(r)
        \/ Checkout(r) \/ BalanceCheckout(r)
        \/ BillingWebhook(r) \/ TuitionWebhook(r)
        \/ Completion(r)
        \/ TL_Payment(r) \/ TL_Ptx(r) \/ TL_Balance(r) \/ TL_Log(r)

SpecRouting == InitRouting /\ [][NextRouting]_vars

CompletionSteps == {"ppc_rpc", "ppc_post"}

TuitionSteps == {"tl_payment", "tl_ptx", "tl_fees", "tl_balance",
                 "tl_installment", "tl_log"}

C25_OneResponse ==
    \A r \in Slots :
        (reqs[r].kind = "success_redirect" /\ reqs[r].pc = "done")
            => reqs[r].sent = 1

\* mock-complete on the payments of the billing router, in every environment.
InitMock == InitWith(MainSchemes, Configurations)

\* The payment types of the billing router take neither the fees branch nor
\* the balance branch of mock-complete.
NextMock ==
    \E r \in SeqSlots :
        \/ Billing(r, MainDates) \/ Checkout(r)
        \/ MockComplete(r) \/ MockFailure(r)
        \/ TL_Payment(r) \/ TL_Ptx(r) \/ TL_Log(r)

SpecMock == InitMock /\ [][NextMock]_vars

\* C26: while the billing router creates real gateway checkouts, no
\* mock-complete request gets as far as a store update or a 200 answer.
C26_MockOnlyOffline ==
    BillingGatewayOn =>
        \A r \in Slots :
            reqs[r].kind = "mock_complete"
                => reqs[r].pc = "done" /\ reqs[r].code # 200

\* The administrative cancel in one request and the tuition webhook in
\* another, on a balance payment that was checked out before.
NextCancelRace ==
    \/ \E r \in SeqSlots :
          /\ \A q \in Slots : Free(q)
          /\ GB_Start(r) \/ TC_Start(r, "balance", 1)
    \/ \E r \in SeqSlots :
          \/ GB_Account(r) \/ GB_Fee(r)
          \/ \E now \in MainDates : GB_Installments(r, now)
          \/ TC_Account(r) \/ TC_Insert(r) \/ TC_Gateway(r)
          \/ TC_GatewayError(r) \/ TC_Ptx(r)
    \/ \E r \in SeqSlots :
          \/ TuitionWebhook(r)
          \/ TL_Payment(r) \/ TL_Ptx(r) \/ TL_Balance(r) \/ TL_Log(r)
    \/ \E r \in Slots \ SeqSlots :
          \/ \E pid \in PaymentIds : AC_Start(r, pid)
          \/ AC_Payment(r) \/ Cancel_Ptx(r)

SpecCancelRace == Init /\ [][NextCancelRace]_vars

\* C27: once every request has ended, a Cancelled payment has no
\* account_transactions row.
C27_CancelledWithoutEffect ==
    (\A r \in Slots : Free(r))
        => \A p \in DOMAIN payments :
              payments[p].status = "Cancelled" => LogRows(p) = 0

\* The amounts of the fees and installments that are marked paid.
PaidObligations ==
    SumAmounts(SelectSeq(enrollment_fees, LAMBDA f : f.is_paid))
        + SumAmounts(SelectSeq(payment_installments,
                               LAMBDA i : i.status = "paid"))

CompletedPayments ==
    SumAmounts(SelectSeq(payments, LAMBDA p : p.status = "Completed"))

\* C28: the Completed payments of the enrollment never add up to more than its
\* fees and installments that are marked paid.
C28_NoOverpayment == CompletedPayments <= PaidObligations

\* C29: create-checkout of the billing router does not answer 'Invalid payment
\* amount' while a fee of the enrollment is unpaid or an installment pending.
C29_NeverStuck ==
    \A r \in Slots :
        (reqs[r].kind = "create_checkout" /\ reqs[r].tag = "invalid_amount")
            => UnpaidFees = <<>> /\ PendingInstallments = {}

\* Two create-checkout requests of the payments router in flight, for a
\* student who has no account and no billing: the requests end when the
\* amount is validated.
NextAccountRace ==
    \E r \in Slots :
        \/ \E t \in {"enrollment", "balance", "monthly"}, c \in {0, 1} :
              TC_Start(r, t, c)
        \/ TC_Account(r)

SpecAccountRace == Init /\ [][NextAccountRace]_vars

\* C30: the store never holds more than one accounts row for the student, and
\* every payment references an accounts row that exists.
C30_OneAccount ==
    /\ Len(accounts) <= 1
    /\ \A p \in DOMAIN payments : payments[p].account_id \in DOMAIN accounts

====
